---------------------------- MODULE Spec2Model ----------------------------
(***************************************************************************)
(* Model of the /countries aggregation pipeline of the World Mobile proxy  *)
(* (src/src/main.rs, src/src/worldmobile.rs, src/src/config.rs).           *)
(*                                                                         *)
(* Strings are sequences of one-character strings, so that trim, byte-wise *)
(* comparison, integer formatting and URL scanning are computed as the     *)
(* code computes them.  JSON values are tagged records with one value      *)
(* field per kind.                                                         *)
(***************************************************************************)
EXTENDS Integers, Sequences, FiniteSets

(* ------------------------------ bounds --------------------------------- *)

\* Largest value of WM_MAX_PAGES explored.
MaxPagesCap == 3

(* --------------------------- program constants ------------------------- *)

\* WM_DEFAULT_PAGE_SIZE default.
DefaultPageSize == 100

(* ------------------------------ Option --------------------------------- *)

NONE == [some |-> FALSE]

Some(x) == [some |-> TRUE, v |-> x]

(* ------------------------------ strings -------------------------------- *)

\* Byte value of every character used by the model (ASCII).
Ord(c) ==
  CASE c = "\t" -> 9
    [] c = " " -> 32
    [] c = "&" -> 38
    [] c = "+" -> 43
    [] c = "/" -> 47
    [] c = "0" -> 48
    [] c = "1" -> 49
    [] c = "2" -> 50
    [] c = "3" -> 51
    [] c = "4" -> 52
    [] c = "5" -> 53
    [] c = "6" -> 54
    [] c = "7" -> 55
    [] c = "8" -> 56
    [] c = "9" -> 57
    [] c = "=" -> 61
    [] c = "?" -> 63
    [] c = "A" -> 65
    [] c = "C" -> 67
    [] c = "D" -> 68
    [] c = "E" -> 69
    [] c = "L" -> 76
    [] c = "P" -> 80
    [] c = "S" -> 83
    [] c = "U" -> 85
    [] c = "a" -> 97
    [] c = "d" -> 100
    [] c = "e" -> 101
    [] c = "g" -> 103
    [] c = "k" -> 107
    [] c = "n" -> 110
    [] c = "p" -> 112
    [] c = "s" -> 115
    [] c = "t" -> 116
    [] c = "u" -> 117
    [] c = "x" -> 120

\* str::cmp: lexicographic comparison of the bytes, no case folding.
StrLess(a, b) ==
  \/ /\ Len(a) < Len(b)
     /\ \A i \in 1..Len(a) : a[i] = b[i]
  \/ \E i \in 1..Len(a) :
       /\ i <= Len(b)
       /\ \A j \in 1..(i - 1) : a[j] = b[j]
       /\ Ord(a[i]) < Ord(b[i])

IsWhitespace(c) == c \in {" ", "\t"}

RECURSIVE TrimStart(_)
TrimStart(s) ==
  IF s # <<>> /\ IsWhitespace(Head(s)) THEN TrimStart(Tail(s)) ELSE s

RECURSIVE TrimEnd(_)
TrimEnd(s) ==
  IF s # <<>> /\ IsWhitespace(s[Len(s)])
  THEN TrimEnd(SubSeq(s, 1, Len(s) - 1))
  ELSE s

\* str::trim
Trim(s) == TrimEnd(TrimStart(s))

Digits == <<"0", "1", "2", "3", "4", "5", "6", "7", "8", "9">>

IsDigit(c) == \E d \in 1..10 : Digits[d] = c

DigitVal(c) == (CHOOSE d \in 1..10 : Digits[d] = c) - 1

\* u32::to_string: decimal digits, no sign, no leading zeros.
RECURSIVE U32ToString(_)
U32ToString(n) ==
  IF n < 10 THEN <<Digits[n + 1]>>
  ELSE U32ToString(n \div 10) \o <<Digits[(n % 10) + 1]>>

RECURSIVE DigitsValue(_)
DigitsValue(s) ==
  IF s = <<>> THEN 0
  ELSE 10 * DigitsValue(SubSeq(s, 1, Len(s) - 1)) + DigitVal(s[Len(s)])

\* str::parse::<u32>: an optional '+', then one or more digits; anything
\* else is an error (NONE).  The digit strings of the model are short, so
\* the overflow error of parse (value above 2^32 - 1) is out of reach.
ParseU32(s) ==
  LET body == IF s # <<>> /\ Head(s) = "+" THEN Tail(s) ELSE s
  IN IF /\ body # <<>>
        /\ \A i \in 1..Len(body) : IsDigit(body[i])
     THEN Some(DigitsValue(body))
     ELSE NONE

\* str::find(pat): index (1-based) of the first occurrence, 0 when absent.
Find(s, pat) ==
  LET hits == {i \in 1..Len(s) :
                 /\ i + Len(pat) - 1 <= Len(s)
                 /\ SubSeq(s, i, i + Len(pat) - 1) = pat}
  IN IF hits = {} THEN 0
     ELSE CHOOSE i \in hits : \A j \in hits : i <= j

(* -------------------------------- JSON --------------------------------- *)

JStr(s) == [t |-> "str", s |-> s]

JNum(n) == [t |-> "num", n |-> n]

JObj(f) == [t |-> "obj", o |-> f]

JArr(a) == [t |-> "arr", a |-> a]

JNull == [t |-> "null"]

\* The absent value of Option<&Value>.
Absent == [t |-> "absent"]

\* Value::get(key): a member of an object, None for anything else.
Get(val, k) ==
  IF val.t = "obj" /\ k \in DOMAIN val.o THEN val.o[k] ELSE Absent

\* Value::as_str
AsStr(val) == IF val.t = "str" THEN Some(val.s) ELSE NONE

\* Value::as_u64: only non-negative integers.
AsU64(val) == IF val.t = "num" /\ val.n >= 0 THEN Some(val.n) ELSE NONE

\* Mutant: the last alias with a string value is taken, not the first.
FindMapStr_M(keys, obj) ==
  LET idx == {i \in 1..Len(keys) : AsStr(Get(obj, keys[i])).some}
  IN IF idx = {} THEN NONE
     ELSE AsStr(Get(obj, keys[CHOOSE i \in idx : \A j \in idx : j <= i]))

\* iter().find_map(|k| obj.get(k).and_then(as_str)) over an ordered key list.
RECURSIVE FindMapStr(_, _)
FindMapStr(keys, obj) ==
  IF keys = <<>> THEN NONE
  ELSE IF AsStr(Get(obj, Head(keys))).some THEN AsStr(Get(obj, Head(keys)))
  ELSE FindMapStr(Tail(keys), obj)

(* ----------------------- extract_countries ----------------------------- *)

Pair(code, name) == [code |-> code, name |-> name]

\* Mutant: the code is tested trimmed but stored as found.
PushPair_M(v, code, name) ==
  IF code.some /\ Trim(code.v) # <<>>
  THEN Append(v, [code |-> code.v,
                  name |-> IF name.some THEN Some(Trim(name.v)) ELSE NONE])
  ELSE v

\* push_pair: the pair is kept when a code was found and is non-empty after
\* trimming; code and name are trimmed.
PushPair(v, code, name) ==
  IF code.some /\ Trim(code.v) # <<>>
  THEN Append(v, Pair(Trim(code.v),
                      IF name.some THEN Some(Trim(name.v)) ELSE NONE))
  ELSE v

CodeKeys ==
  <<"country_code", "countryCode", "countryCodeISO", "isoCountry",
    "country", "code">>

NameKeys ==
  <<"country_name", "countryName", "name", "countryLabel", "country">>

ListKeys == <<"countries", "supportedCountries", "availableCountries">>

SubCodeKeys == <<"code", "country_code", "countryCode", "country">>

SubNameKeys == <<"name", "country_name", "countryName">>

ContainerKeys == <<"data", "packages", "items", "results">>

\* The inner loop of normalize_entry over one nested list.
SubPairs(arr, out) ==
  LET F[i \in 0..Len(arr)] ==
        IF i = 0 THEN out
        ELSE IF arr[i].t = "obj"
             THEN PushPair(F[i - 1], FindMapStr(SubCodeKeys, arr[i]),
                           FindMapStr(SubNameKeys, arr[i]))
             ELSE F[i - 1]
  IN F[Len(arr)]

\* normalize_entry(entry, out): the pairs of one entry appended to out.
NormalizeEntry(entry, out) ==
  IF entry.t # "obj" THEN out
  ELSE
    LET own == PushPair(out, FindMapStr(CodeKeys, entry),
                        FindMapStr(NameKeys, entry))
        L[i \in 0..Len(ListKeys)] ==
          IF i = 0 THEN own
          ELSE IF Get(entry, ListKeys[i]).t = "arr"
               THEN SubPairs(Get(entry, ListKeys[i]).a, L[i - 1])
               ELSE L[i - 1]
    IN L[Len(ListKeys)]

\* for item in arr { normalize_entry(item, &mut pairs) }
EntriesOf(arr, out) ==
  LET F[i \in 0..Len(arr)] ==
        IF i = 0 THEN out ELSE NormalizeEntry(arr[i], F[i - 1])
  IN F[Len(arr)]

\* The candidate pairs of one payload, in extraction order (before the
\* per-page deduplication).
RawPairs(payload) ==
  IF payload.t = "arr" THEN EntriesOf(payload.a, <<>>)
  ELSE IF payload.t = "obj" THEN
    LET C[i \in 0..Len(ContainerKeys)] ==
          IF i = 0 THEN <<>>
          ELSE IF Get(payload, ContainerKeys[i]).t = "arr"
               THEN EntriesOf(Get(payload, ContainerKeys[i]).a, C[i - 1])
               ELSE C[i - 1]
    IN NormalizeEntry(payload, C[Len(ContainerKeys)])
  ELSE <<>>

\* Mutant: a later non-null name replaces the one already kept.
DedupMap_M(pairs) ==
  LET F[i \in 0..Len(pairs)] ==
        IF i = 0 THEN [c \in {} |-> NONE]
        ELSE LET m == F[i - 1]
                 p == pairs[i]
             IN [c \in DOMAIN m \cup {p.code} |->
                   IF c = p.code
                   THEN IF c \in DOMAIN m /\ ~p.name.some THEN m[c] ELSE p.name
                   ELSE m[c]]
  IN F[Len(pairs)]

\* map.entry(code).and_modify(|v| if v.is_none() { *v = name }).or_insert(name)
\* folded over the pairs: a map from code to Option<name>.
DedupMap(pairs) ==
  LET F[i \in 0..Len(pairs)] ==
        IF i = 0 THEN [c \in {} |-> NONE]
        ELSE LET m == F[i - 1]
                 p == pairs[i]
             IN [c \in DOMAIN m \cup {p.code} |->
                   IF c = p.code
                   THEN IF c \in DOMAIN m /\ m[c].some THEN m[c] ELSE p.name
                   ELSE m[c]]
  IN F[Len(pairs)]

\* The codes in ascending byte order (sort_by on a.code.cmp(b.code)).  The
\* keys of a map are distinct, so the order in which the map is iterated
\* before the sort does not show in the result.
RECURSIVE SortCodes(_)
SortCodes(S) ==
  IF S = {} THEN <<>>
  ELSE LET m == CHOOSE x \in S : \A y \in S : x = y \/ StrLess(x, y)
       IN <<m>> \o SortCodes(S \ {m})

\* map.into_iter().collect() followed by the sort.
SortedPairs(m) ==
  LET codes == SortCodes(DOMAIN m)
  IN [i \in 1..Len(codes) |-> Pair(codes[i], m[codes[i]])]

\* The orders in which a HashMap with these keys may be iterated: the
\* order is unspecified, so every permutation of the keys.
IterationOrders(keys) ==
  {f \in [1..Cardinality(keys) -> keys] : \A c \in keys : \E i \in DOMAIN f : f[i] = c}

\* map.into_iter().collect() when the map is iterated in the order ord.
Collect(m, ord) == [i \in 1..Len(ord) |-> Pair(ord[i], m[ord[i]])]

\* One step of a stable sort: x goes behind the elements not above it.
InsertByCode(v, x) ==
  LET k == Cardinality({i \in 1..Len(v) : ~StrLess(x.code, v[i].code)})
  IN SubSeq(v, 1, k) \o <<x>> \o SubSeq(v, k + 1, Len(v))

\* Mutant: the vector is left in the order of collection.
SortByCode_M(v) == v

\* v.sort_by(|a, b| a.code.cmp(&b.code)): a stable sort by code.
SortByCode(v) ==
  LET F[i \in 0..Len(v)] ==
        IF i = 0 THEN <<>> ELSE InsertByCode(F[i - 1], v[i])
  IN F[Len(v)]

\* Mutant: the candidates are sorted without passing through the map.
MergeIn_M(cands, ord) == SortByCode(cands)

\* The merge as the code runs it on a list of pairs: dedup map, collect in
\* the map's iteration order ord, sort.
MergeIn(cands, ord) == SortByCode(Collect(DedupMap(cands), ord))

\* Mutant: per page the first pair of a code is kept as it is, a later name
\* of the same page is not filled in.
ExtractCountries_M(payload) ==
  LET pairs == RawPairs(payload)
      first(c) == CHOOSE i \in 1..Len(pairs) :
                    /\ pairs[i].code = c
                    /\ \A j \in 1..(i - 1) : pairs[j].code # c
  IN SortedPairs([c \in {pairs[i].code : i \in 1..Len(pairs)} |->
                   pairs[first(c)].name])

\* extract_countries(payload)
ExtractCountries(payload) == SortedPairs(DedupMap(RawPairs(payload)))

(* ---------------------------- pagination ------------------------------- *)

PageEq == <<"p", "a", "g", "e", "=">>

\* The last branch of next_page_number: a page number in links.next.
LinkPage(payload) ==
  LET next_url == AsStr(Get(Get(payload, "links"), "next"))
  IN IF ~next_url.some THEN NONE
     ELSE LET idx == Find(next_url.v, PageEq)
          IN IF idx = 0 THEN NONE
             ELSE LET tail == SubSeq(next_url.v, idx + 5, Len(next_url.v))
                      amp == Find(tail, <<"&">>)
                      end == IF amp = 0 THEN Len(tail) ELSE amp - 1
                  IN ParseU32(SubSeq(tail, 1, end))

\* Mutant: the counters advance while page <= total_pages.
NextPageNumber_M(payload, current_page) ==
  LET m == Get(payload, "meta")
      tp == AsU64(Get(m, "total_pages"))
      pg == AsU64(Get(m, "page"))
      total_pages == IF tp.some THEN tp.v ELSE 0
      page == IF pg.some THEN pg.v ELSE current_page
      np == AsU64(Get(payload, "next_page"))
  IN IF m.t = "obj" /\ total_pages > 0 /\ page <= total_pages
     THEN Some(page + 1)
     ELSE IF np.some THEN Some(np.v)
     ELSE LinkPage(payload)

\* next_page_number(payload, current_page).  Every number of the model is
\* far below 2^32, where the `as u32` casts change nothing and page + 1
\* cannot wrap.
NextPageNumber(payload, current_page) ==
  LET m == Get(payload, "meta")
      tp == AsU64(Get(m, "total_pages"))
      pg == AsU64(Get(m, "page"))
      total_pages == IF tp.some THEN tp.v ELSE 0
      page == IF pg.some THEN pg.v ELSE current_page
      np == AsU64(Get(payload, "next_page"))
  IN IF m.t = "obj" /\ total_pages > 0 /\ page < total_pages
     THEN Some(page + 1)
     ELSE IF np.some THEN Some(np.v)
     ELSE LinkPage(payload)

TokenKeys == <<"next", "nextToken", "next_token", "nextPageToken">>

\* The first non-empty string under one of the keys, in order.
RECURSIVE FirstNonEmpty(_, _)
FirstNonEmpty(keys, payload) ==
  IF keys = <<>> THEN NONE
  ELSE LET s == AsStr(Get(payload, Head(keys)))
       IN IF s.some /\ s.v # <<>> THEN s
          ELSE FirstNonEmpty(Tail(keys), payload)

\* next_token(payload)
NextToken(payload) ==
  LET top == FirstNonEmpty(TokenKeys, payload)
      meta == AsStr(Get(Get(payload, "meta"), "next_token"))
      link == AsStr(Get(Get(payload, "links"), "next"))
  IN IF top.some THEN top
     ELSE IF meta.some /\ meta.v # <<>> THEN meta
     ELSE IF link.some /\ link.v # <<>> THEN link
     ELSE NONE

(* --------------------------- sample documents -------------------------- *)

sUS == <<"U", "S">>

sCA == <<"C", "A">>

sDE == <<"D", "E">>

sPL == <<"P", "L">>

sUA == <<"U", "A">>

sLowerUs == <<"u", "s">>

sUSA == <<"U", "S", "A">>

sUsa == <<"U", "s", "a">>

sCanada == <<"C", "a", "n", "a", "d", "a">>

sTok == <<"t", "k">>

sLink == <<"/", "x", "?", "p", "a", "g", "e", "=", "3", "&", "s", "=", "1">>

\* The canned document ./stub.json compiled into the binary.
StubDoc ==
  JObj([data |-> JArr(<<
    JObj([country_code |-> JStr(sUA), country_name |-> JStr(<<"U", "a">>)]),
    JObj([country_code |-> JStr(sPL), country_name |-> JStr(<<"P", "L">>)]),
    JObj([country_code |-> JStr(sUA)])>>)])

\* Documents the upstream may answer with: every continuation signal, alone
\* and combined, and every page shape extract_countries distinguishes.
Payloads == <<
  \* 1: counters, first of two pages; a code without a name
  JObj([meta |-> JObj([page |-> JNum(1), total_pages |-> JNum(2)]),
        data |-> JArr(<<JObj([country_code |-> JStr(sUS)])>>)]),
  \* 2: counters, last page
  JObj([meta |-> JObj([page |-> JNum(2), total_pages |-> JNum(2)]),
        data |-> JArr(<<JObj([country_code |-> JStr(sCA),
                              country_name |-> JStr(sCanada)])>>)]),
  \* 3: a token together with counters; untrimmed name
  JObj([next |-> JStr(sTok),
        meta |-> JObj([page |-> JNum(1), total_pages |-> JNum(3)]),
        data |-> JArr(<<JObj([country_code |-> JStr(sUS),
                              country_name |-> JStr(<<" ">> \o sUSA \o <<" ">>)])>>)]),
  \* 4: a next link carrying a page number; untrimmed lower-case code
  JObj([links |-> JObj([next |-> JStr(sLink)]),
        items |-> JArr(<<JObj([code |-> JStr(<<" ">> \o sLowerUs \o <<"\t">>)])>>)]),
  \* 5: an array page; nested list, blank code, non-object entry
  JArr(<<JObj([country |-> JStr(sDE),
               countries |-> JArr(<<
                 JObj([code |-> JStr(sUS), name |-> JStr(sUsa)]),
                 JObj([country_code |-> JStr(<<" ", " ">>)]),
                 JNum(1)>>)]),
         JNum(7)>>),
  \* 6: total_pages without page, an empty token; the page is itself a record
  JObj([meta |-> JObj([total_pages |-> JNum(2), next_token |-> JStr(<<>>)]),
        code |-> JStr(sCA)]),
  \* 7: a numeric next_page pointing back at page 1, an empty next link
  JObj([next_page |-> JNum(1),
        links |-> JObj([next |-> JStr(<<>>)]),
        results |-> JArr(<<JObj([code |-> JStr(sLowerUs),
                                 name |-> JStr(<<" ">>)])>>)]),
  \* 8: a scalar
  JNum(7),
  \* 9: counters, first of three pages; a code repeated inside the page,
  \*    the name on the second occurrence
  JObj([meta |-> JObj([page |-> JNum(1), total_pages |-> JNum(3)]),
        data |-> JArr(<<JObj([country_code |-> JStr(sDE)]),
                        JObj([country_code |-> JStr(sDE),
                              name |-> JStr(sDE)])>>)]),
  \* 10: counters, second of three pages; no entries
  JObj([meta |-> JObj([page |-> JNum(2), total_pages |-> JNum(3)]),
        data |-> JArr(<<>>)]),
  \* 11: counters, last of three pages
  JObj([meta |-> JObj([page |-> JNum(3), total_pages |-> JNum(3)]),
        data |-> JArr(<<JObj([code |-> JStr(sCA)])>>)])
>>

\* Bodies that are not JSON, as bytes: "no" and a lone 0xFF.
RawBodies == <<(<<110, 111>>), (<<255>>)>>

JsonBody(val) == [kind |-> "json", val |-> val]

RawBody(bytes) == [kind |-> "raw", bytes |-> bytes]

\* What the upstream may send back for one request.
Replies ==
  [i \in 1..Len(Payloads) |-> [status |-> 200, body |-> JsonBody(Payloads[i])]]
  \o <<[status |-> 200, body |-> RawBody(RawBodies[1])],
       [status |-> 404, body |-> RawBody(RawBodies[1])],
       [status |-> 503, body |-> RawBody(RawBodies[2])]>>

(* ------------------------------ the client ----------------------------- *)

\* String::from_utf8_lossy on bytes that are ASCII or 0xFF: an ASCII byte is
\* kept, 0xFF is never valid UTF-8 and becomes U+FFFD (EF BF BD).
FromUtf8Lossy(bytes) ==
  LET F[i \in 0..Len(bytes)] ==
        IF i = 0 THEN <<>>
        ELSE IF bytes[i] < 128 THEN Append(F[i - 1], bytes[i])
             ELSE F[i - 1] \o <<239, 191, 189>>
  IN F[Len(bytes)]

\* StatusCode::is_success
IsSuccess(status) == status >= 200 /\ status < 300

Ok(x) == [tag |-> "Ok", v |-> x]

Err(e) == [tag |-> "Err", err |-> e]

Pending == [tag |-> "pending"]

\* fetch_available_packages after the response arrived: status check, then
\* the JSON parse.
ClientOutcome(reply) ==
  IF ~IsSuccess(reply.status)
  THEN Err([kind |-> "Upstream", status |-> reply.status,
            body |-> FromUtf8Lossy(reply.body.bytes)])
  ELSE IF reply.body.kind = "json" THEN Ok(reply.body.val)
  ELSE Err([kind |-> "BadJson"])

(* ------------------------------ the driver ----------------------------- *)

EmptyMap == [k \in {} |-> <<>>]

\* HashMap::insert
Insert(m, k, val) ==
  [x \in DOMAIN m \cup {k} |-> IF x = k THEN val ELSE m[x]]

\* Mutant: the fetch_all flag is not consulted.
SingleFetch_M(s, fetch_all) == s.use_stub

\* if client.settings.use_stub || !fetch_all
SingleFetch(s, fetch_all) == s.use_stub \/ ~fetch_all

\* Mutant: the range is taken inclusive, 0..=max_pages.
WithinCap_M(done, max_pages) == done <= max_pages

\* for _ in 0..max_pages: is there an iteration after `done` iterations?
WithinCap(done, max_pages) == done < max_pages

\* Mutant: the page number is preferred to the token.
Continuation_M(payload, prm, pg) ==
  LET tok == NextToken(payload)
      np == NextPageNumber(payload, pg)
  IN IF np.some
     THEN [cont |-> TRUE,
           params |-> Insert(prm, "page", U32ToString(np.v)),
           page |-> np.v]
     ELSE IF tok.some
     THEN [cont |-> TRUE, params |-> Insert(prm, "next", tok.v), page |-> pg]
     ELSE [cont |-> FALSE, params |-> prm, page |-> pg]

\* The tail of one loop iteration: the continuation signal of the payload
\* and the parameters and page number it leaves for the next iteration.
Continuation(payload, prm, pg) ==
  LET tok == NextToken(payload)
      np == NextPageNumber(payload, pg)
  IN IF tok.some
     THEN [cont |-> TRUE, params |-> Insert(prm, "next", tok.v), page |-> pg]
     ELSE IF np.some
     THEN [cont |-> TRUE,
           params |-> Insert(prm, "page", U32ToString(np.v)),
           page |-> np.v]
     ELSE [cont |-> FALSE, params |-> prm, page |-> pg]

\* Mutant: the page-size hint of the request is ignored.
SeedParams_M(base, page_size, s) ==
  Insert(Insert(base, "page", U32ToString(1)),
         "page_size", U32ToString(s.default_page_size))

\* params.insert("page", ...); params.insert("page_size", ...)
SeedParams(base, page_size, s) ==
  LET ps == IF page_size.some THEN page_size.v ELSE s.default_page_size
  IN Insert(Insert(base, "page", U32ToString(1)), "page_size", U32ToString(ps))

(* ------------------------------- state -------------------------------- *)

VARIABLES
  settings,     \* Settings, fixed at startup
  q,            \* CountryQuery of the request
  pc,           \* "idle", "awaiting" (an upstream call is in flight), "done"
  base_params,  \* the parameter map get_countries builds
  params,       \* fetch_all_pages: the driver's copy of the parameters
  page,         \* fetch_all_pages: current page number
  iter,         \* fetch_all_pages: completed loop iterations
  pages,        \* fetch_all_pages: pages accumulated by the loop
  fetched,      \* every payload received from the upstream, in order
  calls,        \* parameters of every call of fetch_available_packages
  net,          \* number of HTTP requests sent
  last_reply,   \* the last answer of the upstream, NONE before the first
  result,       \* what fetch_all_pages returned
  response,     \* the HTTP response of the request
  input,        \* function-level runs: the argument drawn for the function
  output        \* function-level runs: what the function returned

vars ==
  <<settings, q, pc, base_params, params, page, iter, pages, fetched, calls,
    net, last_reply, result, response, input, output>>

(* ----------------------------- the handler ----------------------------- *)

\* The query parameters copied into the upstream parameters.
BaseParams(query) ==
  LET a == IF query.country_code.some
           THEN Insert(EmptyMap, "country_code", query.country_code.v)
           ELSE EmptyMap
      b == IF query.scope.some THEN Insert(a, "scope", query.scope.v) ELSE a
  IN IF query.esim_id.some THEN Insert(b, "esim_id", query.esim_id.v) ELSE b

\* q.fetch_all.unwrap_or(false)
FetchAll(query) == query.fetch_all.some /\ query.fetch_all.v

\* map_err
MapErr(err) ==
  CASE err.kind = "MissingToken" ->
         [status |-> 500, body |-> [text |-> "WM_BEARER_TOKEN is not set"]]
    [] err.kind = "Http" ->
         [status |-> 502, body |-> [text |-> "request error"]]
    [] err.kind = "Upstream" ->
         [status |-> err.status, body |-> [bytes |-> err.body]]
    [] err.kind = "BadJson" ->
         [status |-> 502, body |-> [text |-> "invalid JSON from upstream"]]

\* tmp.extend(extract_countries(p)) over the pages, in order.
ExtractAll(pgs) ==
  LET F[i \in 0..Len(pgs)] ==
        IF i = 0 THEN <<>> ELSE F[i - 1] \o ExtractCountries(pgs[i])
  IN F[Len(pgs)]

\* The dedup map and the final sort of get_countries.
Countries(pgs) == SortedPairs(DedupMap(ExtractAll(pgs)))

\* Mutant: with fail-open the stub is added to the pages fetched so far.
PagesOrFallback_M(s, res) ==
  IF res.tag = "Ok" THEN Some([pages |-> res.v, used_fail_open |-> FALSE])
  ELSE IF s.fail_open
       THEN Some([pages |-> fetched \o <<StubDoc>>, used_fail_open |-> TRUE])
       ELSE NONE

\* The pages the response is built from, and whether fail-open was used;
\* NONE when the error is returned.
PagesOrFallback(s, res) ==
  IF res.tag = "Ok" THEN Some([pages |-> res.v, used_fail_open |-> FALSE])
  ELSE IF s.fail_open
       THEN Some([pages |-> <<StubDoc>>, used_fail_open |-> TRUE])
       ELSE NONE

SourceTag(s, used_fail_open) ==
  IF s.use_stub THEN "stub"
  ELSE IF used_fail_open THEN "fail_open_stub"
  ELSE "worldmobile"

\* get_countries from the driver's result to the HTTP response.
Respond(s, res) ==
  LET pf == PagesOrFallback(s, res)
  IN IF ~pf.some THEN MapErr(res.err)
     ELSE LET countries == Countries(pf.v.pages)
          IN [status |-> 200, countries |-> countries,
              count |-> Len(countries),
              source |-> SourceTag(s, pf.v.used_fail_open)]

\* The reply of the timeout layer's error handler.
TimeoutResponse == [status |-> 408, body |-> [text |-> "request timed out"]]

NoResponse == [status |-> 0]

\* Function-level runs not started: no argument, no value.
NoInput == [kind |-> "none"]

NoOutput == [kind |-> "none"]

(* --------------------------- the state machine ------------------------- *)

SettingsSet ==
  [use_stub : BOOLEAN, bearer_token : {NONE, Some(sTok)},
   max_pages : 0..MaxPagesCap, default_page_size : {DefaultPageSize},
   fail_open : BOOLEAN]

QuerySet ==
  [country_code : {NONE, Some(sUS)}, scope : {NONE}, esim_id : {NONE},
   fetch_all : {NONE, Some(FALSE), Some(TRUE)},
   page_size : {NONE, Some(5)}]
  \cup
  [country_code : {NONE}, scope : {Some(sLowerUs)}, esim_id : {Some(sTok)},
   fetch_all : {Some(TRUE)}, page_size : {NONE}]

Init ==
  /\ settings \in SettingsSet
  /\ q \in QuerySet
  /\ pc = "idle"
  /\ base_params = EmptyMap
  /\ params = EmptyMap
  /\ page = 0
  /\ iter = 0
  /\ pages = <<>>
  /\ fetched = <<>>
  /\ calls = <<>>
  /\ net = 0
  /\ last_reply = NONE
  /\ result = Pending
  /\ response = NoResponse
  /\ input = NoInput
  /\ output = NoOutput

\* fetch_all_pages returns res: the rest of get_countries runs.
Return(res) ==
  /\ result' = res
  /\ response' = Respond(settings, res)
  /\ pc' = "done"

\* Mutant: the token is required before stub mode is looked at.
Immediate_M(s) ==
  IF ~s.bearer_token.some THEN Some(Err([kind |-> "MissingToken"]))
  ELSE IF s.use_stub THEN Some(Ok(StubDoc))
  ELSE NONE

\* fetch_available_packages before any I/O: the answer it gives at once
\* (stub mode, missing token), NONE when it has to send the request.
Immediate(s) ==
  IF s.use_stub THEN Some(Ok(StubDoc))
  ELSE IF ~s.bearer_token.some THEN Some(Err([kind |-> "MissingToken"]))
  ELSE NONE

\* get_countries up to the first upstream request (or to the response, when
\* nothing is sent).
GetCountries ==
  /\ pc = "idle"
  /\ LET base == BaseParams(q)
         single == SingleFetch(settings, FetchAll(q))
         prm == IF single THEN base ELSE SeedParams(base, q.page_size, settings)
         now == Immediate(settings)
     IN /\ base_params' = base
        /\ params' = prm
        /\ page' = IF single THEN 0 ELSE 1
        /\ UNCHANGED <<iter, fetched, last_reply>>
        /\ IF ~single /\ ~WithinCap(0, settings.max_pages)
           THEN /\ calls' = calls
                /\ net' = net
                /\ pages' = <<>>
                /\ Return(Ok(<<>>))
           ELSE /\ calls' = Append(calls, prm)
                /\ IF now.some
                   THEN /\ net' = net
                        /\ pages' = <<>>
                        /\ Return(IF now.v.tag = "Ok"
                                  THEN Ok(<<now.v.v>>) ELSE now.v)
                   ELSE /\ net' = net + 1
                        /\ pages' = <<>>
                        /\ pc' = "awaiting"
                        /\ UNCHANGED <<result, response>>
  /\ UNCHANGED <<settings, q, input, output>>

\* The request in flight is answered: the client checks status and body,
\* and the driver either returns or sends the next request.
UpstreamReply(reply) ==
  /\ pc = "awaiting"
  /\ last_reply' = Some(reply)
  /\ LET out == ClientOutcome(reply)
         single == SingleFetch(settings, FetchAll(q))
     IN IF out.tag = "Err"
        THEN /\ pages' = <<>>
             /\ Return(out)
             /\ UNCHANGED <<params, page, iter, fetched, calls, net>>
        ELSE IF single
        THEN /\ fetched' = Append(fetched, out.v)
             /\ Return(Ok(<<out.v>>))
             /\ UNCHANGED <<params, page, iter, pages, calls, net>>
        ELSE LET c == Continuation(out.v, params, page)
             IN /\ fetched' = Append(fetched, out.v)
                /\ pages' = Append(pages, out.v)
                /\ params' = c.params
                /\ page' = c.page
                /\ iter' = iter + 1
                /\ IF c.cont /\ WithinCap(iter + 1, settings.max_pages)
                   THEN /\ calls' = Append(calls, c.params)
                        /\ net' = net + 1
                        /\ UNCHANGED <<pc, result, response>>
                   ELSE /\ Return(Ok(Append(pages, out.v)))
                        /\ UNCHANGED <<calls, net>>
  /\ UNCHANGED <<settings, q, base_params, input, output>>

\* Mutant: a call that fails in transport is sent once more.
UpstreamFail_M ==
  /\ pc = "awaiting"
  /\ IF Len(calls) = Len(fetched) + 1
     THEN /\ calls' = Append(calls, calls[Len(calls)])
          /\ net' = net + 1
          /\ UNCHANGED <<pc, pages, result, response>>
     ELSE /\ pages' = <<>>
          /\ Return(Err([kind |-> "Http"]))
          /\ UNCHANGED <<calls, net>>
  /\ UNCHANGED <<settings, q, base_params, params, page, iter, fetched,
                 last_reply, input, output>>

\* The request in flight fails in transport (send or body read).
UpstreamFail ==
  /\ pc = "awaiting"
  /\ pages' = <<>>
  /\ Return(Err([kind |-> "Http"]))
  /\ UNCHANGED <<settings, q, base_params, params, page, iter, fetched,
                 calls, net, last_reply, input, output>>

\* Mutant: on the timeout the handler answers from the pages it has.
RequestTimeout_M ==
  /\ pc = "awaiting"
  /\ pages' = <<>>
  /\ response' = Respond(settings, Ok(pages))
  /\ pc' = "done"
  /\ UNCHANGED <<settings, q, base_params, params, page, iter, fetched,
                 calls, net, last_reply, result, input, output>>

\* The timeout layer fires while the handler waits for the upstream: the
\* handler is dropped and the error handler answers.
RequestTimeout ==
  /\ pc = "awaiting"
  /\ pages' = <<>>
  /\ response' = TimeoutResponse
  /\ pc' = "done"
  /\ UNCHANGED <<settings, q, base_params, params, page, iter, fetched,
                 calls, net, last_reply, result, input, output>>

Next ==
  \/ GetCountries
  \/ \E i \in 1..Len(Replies) : UpstreamReply(Replies[i])
  \/ UpstreamFail
  \/ RequestTimeout

Spec == Init /\ [][Next]_vars

(* --------------------- the functions on their own ---------------------- *)

\* Longest candidate list drawn for the merge.
MaxCands == 3

\* Values an entry may hold under a code or name alias: absent, strings
\* (blank, untrimmed, empty), a number, null.
EntryValues ==
  [country_code |-> <<Absent, JStr(<<" ", " ">>),
                      JStr(<<" ">> \o sLowerUs \o <<"\t">>), JNum(5)>>,
   code         |-> <<Absent, JStr(sUS), JStr(<<>>)>>,
   country      |-> <<Absent, JStr(sDE)>>,
   name         |-> <<Absent, JStr(<<" ">> \o sUsa \o <<" ">>), JNull>>]

EntryChoices ==
  [country_code : 1..4, code : 1..3, country : 1..2, name : 1..3]

\* The entry object holding the chosen values.
EntryOf(ch) ==
  JObj([k \in {a \in DOMAIN ch : EntryValues[a][ch[a]] # Absent} |->
          EntryValues[k][ch[k]]])

Shapes == <<"object", "array", "container", "nested">>

\* A page holding the entry e: the page is e itself, an array with e, an
\* object with e in a container, or an array whose entry lists e in a
\* nested country list.
PageOf(shape, e) ==
  CASE shape = "object" -> e
    [] shape = "array" -> JArr(<<JNum(1), e>>)
    [] shape = "container" -> JObj([results |-> JArr(<<e>>)])
    [] shape = "nested" ->
         JArr(<<JObj([supportedCountries |-> JArr(<<e, JStr(sUS)>>)])>>)

\* Pages of no recognized shape.
OddPages ==
  <<JNum(7), JStr(sUS), JNull, JArr(<<>>), JArr(<<JStr(sUS), JNum(1)>>),
    JObj([data |-> JStr(sUS)]), JObj([total |-> JNum(3)]),
    JObj([countries |-> JNum(1), items |-> JArr(<<JArr(<<>>)>>)])>>

CandCodes == <<sUS, sLowerUs, sCA>>

CandNames == <<NONE, Some(sUSA), Some(sUsa)>>

\* The candidate lists up to MaxCands pairs.
CandLists ==
  UNION {[1..n -> (1..Len(CandCodes)) \X (1..Len(CandNames))] : n \in 0..MaxCands}

CandsOf(l) == [i \in 1..Len(l) |-> Pair(CandCodes[l[i][1]], CandNames[l[i][2]])]

PureInit ==
  /\ settings = [use_stub |-> TRUE, bearer_token |-> NONE, max_pages |-> 0,
                 default_page_size |-> DefaultPageSize, fail_open |-> FALSE]
  /\ q = [country_code |-> NONE, scope |-> NONE, esim_id |-> NONE,
          fetch_all |-> NONE, page_size |-> NONE]
  /\ pc = "done"
  /\ base_params = EmptyMap
  /\ params = EmptyMap
  /\ page = 0
  /\ iter = 0
  /\ pages = <<>>
  /\ fetched = <<>>
  /\ calls = <<>>
  /\ net = 0
  /\ last_reply = NONE
  /\ result = Pending
  /\ response = NoResponse
  /\ output = NoOutput
  /\ \/ \E ch \in EntryChoices, sh \in 1..Len(Shapes) :
          input = [kind |-> "page", shape |-> Shapes[sh], entry |-> EntryOf(ch),
                   page |-> PageOf(Shapes[sh], EntryOf(ch))]
     \/ \E i \in 1..Len(OddPages) :
          input = [kind |-> "page", shape |-> "odd", entry |-> Absent,
                   page |-> OddPages[i]]
     \/ \E l \in CandLists : input = [kind |-> "cands", cands |-> CandsOf(l)]

\* extract_countries is applied to the page.
ApplyExtract ==
  /\ input.kind = "page"
  /\ output = NoOutput
  /\ output' = [kind |-> "extracted", pairs |-> RawPairs(input.page),
                countries |-> ExtractCountries(input.page)]
  /\ UNCHANGED <<settings, q, pc, base_params, params, page, iter, pages,
                 fetched, calls, net, last_reply, result, response, input>>

\* The merge is applied to the candidates, to the candidates twice over and
\* to its own result; each run iterates its map in an order of its own.
ApplyMerge ==
  /\ input.kind = "cands"
  /\ output = NoOutput
  /\ LET l == input.cands
         codes == {l[i].code : i \in 1..Len(l)}
     IN \E o1, o2, o3 \in IterationOrders(codes) :
          output' = [kind |-> "merged", once |-> MergeIn(l, o1),
                     twice |-> MergeIn(l \o l, o2),
                     again |-> MergeIn(MergeIn(l, o1), o3)]
  /\ UNCHANGED <<settings, q, pc, base_params, params, page, iter, pages,
                 fetched, calls, net, last_reply, result, response, input>>

PureNext == ApplyExtract \/ ApplyMerge

PureSpec == PureInit /\ [][PureNext]_vars

(* ------------------------- vocabulary of the claims -------------------- *)

\* The request is served by the pagination loop.
LoopMode == ~SingleFetch(settings, FetchAll(q))

\* The handler has produced the response itself (not the timeout layer).
Answered == pc = "done" /\ response # TimeoutResponse

\* A continuation token in one of the token fields (top level or meta).
HasTokenField(payload) ==
  \/ FirstNonEmpty(TokenKeys, payload).some
  \/ LET t == AsStr(Get(Get(payload, "meta"), "next_token"))
     IN t.some /\ t.v # <<>>

\* The metadata counters show page < total_pages.
CountersAdvance(payload) ==
  LET pg == AsU64(Get(Get(payload, "meta"), "page"))
      tp == AsU64(Get(Get(payload, "meta"), "total_pages"))
  IN pg.some /\ tp.some /\ pg.v < tp.v

MetaPage(payload) == AsU64(Get(Get(payload, "meta"), "page")).v

\* In loop mode fetched[k] answers calls[k], and calls[k + 1] follows it.
HasNextCall(k) == LoopMode /\ k \in 1..Len(fetched) /\ k < Len(calls)

(* -------------------------------- C1 ----------------------------------- *)

\* C1: in fetch_all mode, after a page without a continuation token in the
\* token fields, the next call has page = page + 1 when the counters show
\* page < total_pages, and otherwise page = N when the page has a next link
\* whose query string holds page=N.
C1_NextPageFromCountersThenLink ==
  \A k \in 1..Len(fetched) :
    (HasNextCall(k) /\ ~HasTokenField(fetched[k])) =>
      IF CountersAdvance(fetched[k])
      THEN calls[k + 1]["page"] = U32ToString(MetaPage(fetched[k]) + 1)
      ELSE LinkPage(fetched[k]).some =>
             calls[k + 1]["page"] = U32ToString(LinkPage(fetched[k]).v)

(* -------------------------------- C2 ----------------------------------- *)

\* C2: a MissingCredential failure (no stub mode, no bearer token) is never
\* substituted by fail-open: whatever the fail-open flag, the request is
\* answered with the 500 error and never with a 200 tagged "fail_open_stub".
C2_MissingCredentialNeverSubstituted ==
  (/\ Answered
   /\ ~settings.use_stub
   /\ ~settings.bearer_token.some
   /\ result = Err([kind |-> "MissingToken"])) =>
    /\ response.status = 500
    /\ ~(response.status = 200 /\ response.source = "fail_open_stub")

(* -------------------------------- C3 ----------------------------------- *)

\* C3: with fetch_all=false (or absent) the request calls the upstream
\* client exactly once, whatever continuation signals the page carries, and
\* the driver returns exactly the one page it received.
C3_SingleCallWithoutFetchAll ==
  (~FetchAll(q) /\ pc # "idle") =>
    /\ Len(calls) = 1
    /\ calls[1] = BaseParams(q)
    /\ net <= 1
    /\ (~settings.use_stub /\ settings.bearer_token.some) => net = 1
    /\ Len(fetched) <= 1
    /\ result.tag = "Ok" =>
         /\ Len(result.v) = 1
         /\ ~settings.use_stub => result.v = fetched

\* A request without fetch_all got a page with a token and counters and
\* answered from that page alone.
C3_Witness ==
  /\ pc = "done"
  /\ ~FetchAll(q)
  /\ ~settings.use_stub
  /\ fetched = <<Payloads[3]>>
  /\ response.status = 200
  /\ response.count = 1

(* -------------------------------- C4 ----------------------------------- *)

\* The driver's page number when call k was made, read back from the call.
PageOfCall(k) == ParseU32(calls[k]["page"]).v

\* Page k carried a continuation signal (token or page number).
Signal(k) ==
  \/ NextToken(fetched[k]).some
  \/ NextPageNumber(fetched[k], PageOfCall(k)).some

\* Steps the traversal can still take: none once the response is out, and
\* while a call is in flight one more than the calls the cap still allows.
C4_Variant ==
  CASE pc = "idle" -> settings.max_pages + 2
    [] pc = "awaiting" -> settings.max_pages + 1 - Len(calls)
    [] pc = "done" -> 0

C4_Bounded ==
  LoopMode =>
    /\ Len(calls) <= settings.max_pages
    /\ net <= settings.max_pages
    /\ C4_Variant >= 0
    /\ (pc = "done" /\ Len(fetched) = Len(calls)) =>
         (result.tag = "Ok" /\ response.status = 200)
    /\ result.tag = "Ok" =>
         /\ result.v = fetched
         /\ \A k \in 1..(Len(fetched) - 1) : Signal(k)
         /\ Len(fetched) < settings.max_pages =>
              (Len(fetched) >= 1 /\ ~Signal(Len(fetched)))

\* C4: with fetch_all=true the traversal terminates (every step of the
\* request lowers a non-negative variant); the upstream is called at most
\* max_pages times even when every page carries a signal; the loop stops at
\* the first page without a signal or at the cap, and a traversal in which
\* every call was answered with a page ends without an error.
C4_TraversalTerminates ==
  /\ [](C4_Bounded)
  /\ [][LoopMode => C4_Variant' < C4_Variant]_vars

\* Three pages repeating the same token: the traversal stopped at the cap
\* and answered 200.
C4_Witness ==
  /\ pc = "done"
  /\ LoopMode
  /\ settings.max_pages = 3
  /\ fetched = <<Payloads[3], Payloads[3], Payloads[3]>>
  /\ result.tag = "Ok"
  /\ response.status = 200

(* -------------------------------- C5 ----------------------------------- *)

\* C5: after a page with both a continuation token and counters showing
\* page < total_pages, the next call is the previous call with the token
\* set as its "next" parameter: its page parameter is the previous one, not
\* an incremented page number.
C5_TokenBeforeCounters ==
  \A k \in 1..Len(fetched) :
    (/\ HasNextCall(k)
     /\ NextToken(fetched[k]).some
     /\ CountersAdvance(fetched[k])) =>
      /\ calls[k + 1] = Insert(calls[k], "next", NextToken(fetched[k]).v)
      /\ calls[k + 1]["page"] = calls[k]["page"]
      /\ calls[k + 1]["page"] # U32ToString(PageOfCall(k) + 1)

\* The first page had a token and counters 1 of 3, and a second call was
\* made.
C5_Witness ==
  /\ LoopMode
  /\ Len(fetched) >= 1
  /\ fetched[1] = Payloads[3]
  /\ Len(calls) >= 2
  /\ calls[2]["next"] = sTok
  /\ calls[2]["page"] = <<"1">>

(* --------------------------- merge, declaratively ---------------------- *)

Concat(seqs) ==
  LET F[i \in 0..Len(seqs)] == IF i = 0 THEN <<>> ELSE F[i - 1] \o seqs[i]
  IN F[Len(seqs)]

\* All candidates of the pages: page order, extraction order within a page.
AllCandidates(pgs) == Concat([i \in 1..Len(pgs) |-> RawPairs(pgs[i])])

CodesOf(cands) == {cands[i].code : i \in 1..Len(cands)}

\* The first non-null name among the candidates with code c.
FirstName(cands, c) ==
  LET idx == {i \in 1..Len(cands) : cands[i].code = c /\ cands[i].name.some}
  IN IF idx = {} THEN NONE
     ELSE cands[CHOOSE i \in idx : \A j \in idx : i <= j].name

StrictlyAscending(r) ==
  \A i \in 1..(Len(r) - 1) : StrLess(r[i].code, r[i + 1].code)

\* r is the merge of cands: its codes, each once, ascending, first names.
IsMergeOf(r, cands) ==
  /\ {r[i].code : i \in 1..Len(r)} = CodesOf(cands)
  /\ StrictlyAscending(r)
  /\ \A i \in 1..Len(r) : r[i].name = FirstName(cands, r[i].code)

(* -------------------------------- C6 ----------------------------------- *)

FetchFailure == {"Http", "Upstream", "BadJson"}

\* C6: without stub mode and with fail-open, when the fetch of some page
\* fails with a transport, status or malformed-response error the answer is
\* 200, tagged "fail_open_stub", with exactly the merged content of the
\* canned document: no record of the pages fetched before appears in it.
C6_FailOpenServesStubOnly ==
  (/\ Answered
   /\ ~settings.use_stub
   /\ settings.fail_open
   /\ result.tag = "Err"
   /\ result.err.kind \in FetchFailure) =>
    /\ response.status = 200
    /\ response.source = "fail_open_stub"
    /\ IsMergeOf(response.countries, RawPairs(StubDoc))
    /\ response.count = Cardinality(CodesOf(RawPairs(StubDoc)))
    /\ \A i \in 1..Len(response.countries) :
         response.countries[i].code \notin CodesOf(AllCandidates(fetched))

\* Two pages were fetched, the third fetch failed, the stub was served.
C6_Witness ==
  /\ pc = "done"
  /\ settings.fail_open
  /\ Len(fetched) = 2
  /\ CodesOf(AllCandidates(fetched)) # {}
  /\ result = Err([kind |-> "BadJson"])
  /\ response.status = 200
  /\ response.source = "fail_open_stub"

(* -------------------------------- C7 ----------------------------------- *)

\* C7: without stub mode and without fail-open a failure is surfaced
\* unchanged and no country list is returned: a status error gives the
\* upstream's status and body, a transport error or a malformed response
\* gives 502, a missing credential gives 500.
C7_FailuresSurfacedUnchanged ==
  (/\ Answered
   /\ ~settings.use_stub
   /\ ~settings.fail_open
   /\ result.tag = "Err") =>
    /\ response.status # 200
    /\ result.err.kind = "Upstream" =>
         /\ response.status = last_reply.v.status
         /\ response.body = [bytes |-> last_reply.v.body.bytes]
    /\ result.err.kind \in {"Http", "BadJson"} => response.status = 502
    /\ result.err.kind = "MissingToken" => response.status = 500

(* -------------------------------- C8 ----------------------------------- *)

\* C8: in stub mode every request is answered 200 with source "stub" and
\* the merged content of the canned document, without any network request,
\* whatever fetch_all, page_size, the filters, the fail-open flag and the
\* credential.
C8_StubModeNeverCallsUpstream ==
  settings.use_stub =>
    /\ net = 0
    /\ pc # "awaiting"
    /\ pc = "done" =>
         /\ response.status = 200
         /\ response.source = "stub"
         /\ IsMergeOf(response.countries, RawPairs(StubDoc))
         /\ response.count = Cardinality(CodesOf(RawPairs(StubDoc)))

\* Stub mode answered a fetch_all request with filters, without credential
\* and with fail-open off.
C8_Witness ==
  /\ pc = "done"
  /\ settings.use_stub
  /\ ~settings.bearer_token.some
  /\ ~settings.fail_open
  /\ FetchAll(q)
  /\ q.scope.some
  /\ response.source = "stub"
  /\ response.count = 2

(* -------------------------------- C9 ----------------------------------- *)

\* C9: in the result of an aggregation over the fetched pages, the name of
\* every code is the first non-null name among all candidates with that
\* code, pages in fetch order and candidates in extraction order; a later
\* name never replaces it and a later null never clears it.
C9_FirstNonNullNameWins ==
  (Answered /\ response.status = 200 /\ response.source = "worldmobile") =>
    /\ {response.countries[i].code : i \in 1..Len(response.countries)}
         = CodesOf(AllCandidates(fetched))
    /\ \A i \in 1..Len(response.countries) :
         response.countries[i].name =
           FirstName(AllCandidates(fetched), response.countries[i].code)

\* (US, null), then (US, "USA"), then (US, "Usa") on three pages: "USA".
C9_Witness ==
  /\ pc = "done"
  /\ fetched = <<Payloads[1], Payloads[3], Payloads[5]>>
  /\ response.status = 200
  /\ response.source = "worldmobile"
  /\ \E i \in 1..Len(response.countries) :
       response.countries[i] = Pair(sUS, Some(sUSA))

(* -------------------------------- C10 ---------------------------------- *)

\* C10: every successful response lists its countries strictly ascending
\* by code in byte order (no case folding), each code once, every code
\* non-empty and trimmed, and count is the number of countries.
C10_SortedUniqueTrimmed ==
  (pc = "done" /\ response.status = 200) =>
    /\ StrictlyAscending(response.countries)
    /\ \A i, j \in 1..Len(response.countries) :
         response.countries[i].code = response.countries[j].code => i = j
    /\ \A i \in 1..Len(response.countries) :
         LET c == response.countries[i].code
         IN /\ c # <<>>
            /\ ~IsWhitespace(c[1])
            /\ ~IsWhitespace(c[Len(c)])
    /\ response.count = Len(response.countries)

\* "US" and "us" are both listed, "US" first.
C10_Witness ==
  /\ pc = "done"
  /\ response.status = 200
  /\ \E i, j \in 1..Len(response.countries) :
       /\ i < j
       /\ response.countries[i].code = sUS
       /\ response.countries[j].code = sLowerUs

(* -------------------------------- C11 ---------------------------------- *)

\* The payload is page i of an upstream that paginates with the metadata
\* counters over n pages: page = i, total_pages = n, no token, no next_page,
\* no next link.
CounterPage(payload, i, n) ==
  /\ AsU64(Get(Get(payload, "meta"), "page")) = Some(i)
  /\ AsU64(Get(Get(payload, "meta"), "total_pages")) = Some(n)
  /\ ~HasTokenField(payload)
  /\ Get(payload, "next_page") = Absent
  /\ Get(Get(payload, "links"), "next") = Absent

\* The upstream has so far answered as a counter-paginated one of n pages.
CounterPaginated(n) ==
  /\ LoopMode
  /\ n \in 1..settings.max_pages
  /\ fetched # <<>>
  /\ Len(fetched) <= n
  /\ \A k \in 1..Len(fetched) : CounterPage(fetched[k], k, n)

\* C11: in fetch_all mode against an upstream that paginates with the
\* metadata counters over n <= max_pages pages, the driver calls the upstream
\* with page = 1, 2, ..., n in this order and not once more; when no call
\* fails, the response is a 200 tagged "worldmobile" whose countries are the
\* merge of the candidates of all n pages.
C11_CounterPaginationFetchesAllPages ==
  \A n \in 1..MaxPagesCap :
    CounterPaginated(n) =>
      /\ Len(calls) <= n
      /\ \A k \in 1..Len(calls) : calls[k]["page"] = U32ToString(k)
      /\ Len(fetched) < n => (pc = "awaiting" \/ result.tag = "Err"
                                \/ response = TimeoutResponse)
      /\ Len(fetched) = n =>
           /\ Answered
           /\ Len(calls) = n
           /\ result = Ok(fetched)
           /\ response.status = 200
           /\ response.source = "worldmobile"
           /\ IsMergeOf(response.countries, AllCandidates(fetched))
           /\ response.count = Len(response.countries)

\* Page 1 lists US without a name and page 2 lists CA "Canada": two calls,
\* and the response lists CA "Canada" before US.
C11_Witness ==
  /\ CounterPaginated(2)
  /\ fetched = <<Payloads[1], Payloads[2]>>
  /\ <<calls[1]["page"], calls[2]["page"]>> = <<U32ToString(1), U32ToString(2)>>
  /\ response.status = 200
  /\ response.source = "worldmobile"
  /\ response.count = 2
  /\ response.countries = <<Pair(sCA, Some(sCanada)), Pair(sUS, NONE)>>

(* -------------------------------- C12 ---------------------------------- *)

\* The value under the first alias of keys that holds a string.
FirstAlias(keys, e) ==
  LET idx == {i \in 1..Len(keys) : Get(e, keys[i]).t = "str"}
  IN IF idx = {} THEN NONE
     ELSE Some(Get(e, keys[CHOOSE i \in idx : \A j \in idx : i <= j]).s)

\* s without its leading and trailing whitespace.
Trimmed(s) ==
  LET ink == {i \in 1..Len(s) : ~IsWhitespace(s[i])}
  IN IF ink = {} THEN <<>>
     ELSE SubSeq(s, CHOOSE i \in ink : \A j \in ink : i <= j,
                    CHOOSE i \in ink : \A j \in ink : j <= i)

\* The candidate of entry e under the given aliases: none, or the one pair.
Candidate(codeKeys, nameKeys, e) ==
  LET c == FirstAlias(codeKeys, e)
      n == FirstAlias(nameKeys, e)
  IN IF e.t = "obj" /\ c.some /\ Trimmed(c.v) # <<>>
     THEN <<Pair(Trimmed(c.v), IF n.some THEN Some(Trimmed(n.v)) ELSE NONE)>>
     ELSE <<>>

\* C12: extraction yields a candidate for an entry exactly when the first
\* code alias (in the fixed order) holding a string holds one that is
\* non-empty after trimming; the candidate's code and name are the trimmed
\* values (the name under the first name alias, null without one); an entry
\* of a nested country list is read under the nested aliases; a page of no
\* recognized shape yields no candidate and extraction still returns.
C12_CandidateIffTrimmedCode ==
  output.kind = "extracted" =>
    /\ input.shape \in {"object", "array", "container"} =>
         output.pairs = Candidate(CodeKeys, NameKeys, input.entry)
    /\ input.shape = "nested" =>
         output.pairs = Candidate(SubCodeKeys, SubNameKeys, input.entry)
    /\ input.shape = "odd" => output.pairs = <<>> /\ output.countries = <<>>
    /\ output.countries = output.pairs

\* An entry with country_code " us\t", code "US" and name " Usa " in an
\* array page gave the one candidate us "Usa".
C12_Witness ==
  /\ output.kind = "extracted"
  /\ input.shape = "array"
  /\ Get(input.entry, "code") = JStr(sUS)
  /\ Get(input.entry, "country_code") = JStr(<<" ">> \o sLowerUs \o <<"\t">>)
  /\ Get(input.entry, "name") = JStr(<<" ">> \o sUsa \o <<" ">>)
  /\ output.pairs = <<Pair(sLowerUs, Some(sUsa))>>

(* -------------------------------- C13 ---------------------------------- *)

\* C13: the merge is idempotent: merging a candidate list concatenated with
\* itself gives the merge of the list, and merging the records of a merge
\* gives the same records.
C13_MergeIdempotent ==
  output.kind = "merged" =>
    /\ output.twice = output.once
    /\ output.again = output.once

\* US without a name, CA "Usa", US "USA": the merge is CA "Usa", US "USA",
\* also for the doubled list and for the merge of the merge.
C13_Witness ==
  /\ output.kind = "merged"
  /\ input.cands = <<Pair(sUS, NONE), Pair(sCA, Some(sUsa)),
                     Pair(sUS, Some(sUSA))>>
  /\ output.once = <<Pair(sCA, Some(sUsa)), Pair(sUS, Some(sUSA))>>
  /\ output.twice = output.once
  /\ output.again = output.once

(* -------------------------------- C14 ---------------------------------- *)

SingleMerge(cands) ==
  LET codes == SortCodes(CodesOf(cands))
  IN [i \in 1..Len(codes) |-> Pair(codes[i], FirstName(cands, codes[i]))]

\* C15: the countries of a 200 response are one merge over the
\* concatenation of the raw candidates of all pages served: deduplicating
\* and sorting each page and then merging across the pages gives the same
\* records as a single merge of the whole union.
C15_TwoStageEqualsSingleMerge ==
  (pc = "done" /\ response.status = 200) =>
    LET pgs == PagesOrFallback(settings, result).v.pages
    IN /\ response.countries = SingleMerge(AllCandidates(pgs))
       /\ response.countries = SortedPairs(DedupMap(AllCandidates(pgs)))

\* Three pages: the first lists DE twice, the name on the second entry; the
\* response lists CA and DE "DE".
C15_Witness ==
  /\ pc = "done"
  /\ response.status = 200
  /\ response.source = "worldmobile"
  /\ result = Ok(<<Payloads[9], Payloads[10], Payloads[11]>>)
  /\ response.countries = <<Pair(sCA, NONE), Pair(sDE, Some(sDE))>>

(* -------------------------------- C16 ---------------------------------- *)

\* C16: the continuation parameters of a call come from the page just
\* before it only: after a page that yields no token but a page number, the
\* next call carries that page number and no continuation token.
C16_NoStaleContinuationToken ==
  \A k \in 1..Len(fetched) :
    (/\ HasNextCall(k)
     /\ ~NextToken(fetched[k]).some
     /\ NextPageNumber(fetched[k], PageOfCall(k)).some) =>
      /\ calls[k + 1]["page"] =
           U32ToString(NextPageNumber(fetched[k], PageOfCall(k)).v)
      /\ "next" \notin DOMAIN calls[k + 1]

(* -------------------------------- C17 ---------------------------------- *)

FilterKeys == {"country_code", "scope", "esim_id"}

\* The map holds exactly the caller's filters, with the caller's values.
CarriesFilters(m) ==
  \A key \in FilterKeys :
    /\ key \in DOMAIN m <=> q[key].some
    /\ q[key].some => m[key] = q[key].v

\* C17: every upstream call carries the caller's filter parameters
\* unchanged, and the caller's map is not modified.  Without fetch_all the
\* call carries nothing else; with fetch_all the driver adds only page,
\* page_size and the continuation token: the first call has page 1 and
\* the hinted (else the configured) page size and no token, and every later
\* call has the same page size.
C17_FiltersAndPageSizeCarriedUnchanged ==
  /\ pc # "idle" => (CarriesFilters(base_params) /\ DOMAIN base_params \subseteq FilterKeys)
  /\ \A k \in 1..Len(calls) :
       /\ CarriesFilters(calls[k])
       /\ IF LoopMode
          THEN /\ DOMAIN calls[k] \ FilterKeys \in
                    {{"page", "page_size"}, {"page", "page_size", "next"}}
               /\ calls[k]["page_size"] =
                    U32ToString(IF q.page_size.some THEN q.page_size.v
                                ELSE settings.default_page_size)
               /\ k = 1 => (calls[k]["page"] = U32ToString(1)
                            /\ "next" \notin DOMAIN calls[k])
          ELSE DOMAIN calls[k] \subseteq FilterKeys

\* A fetch_all request with country_code "US" and the page-size hint 5: the
\* first call adds page 1 and page_size "5", the second, after a page with a
\* token, the token as well; the caller's map still holds country_code only.
C17_Witness ==
  /\ LoopMode
  /\ q.country_code = Some(sUS)
  /\ q.page_size = Some(5)
  /\ Len(calls) = 2
  /\ calls[1] = [country_code |-> sUS, page |-> U32ToString(1),
                 page_size |-> U32ToString(5)]
  /\ calls[2] = [country_code |-> sUS, page |-> U32ToString(1),
                 page_size |-> U32ToString(5), next |-> sTok]
  /\ base_params = [country_code |-> sUS]

(* -------------------------------- C18 ---------------------------------- *)

\* At most one call waits for its page, every call sends at most one HTTP
\* request, the pages are kept in the order fetched, and a failure is the
\* failure of the last call, after which the request is over.
C18_Sequential ==
  /\ Len(fetched) <= Len(calls)
  /\ Len(calls) <= Len(fetched) + 1
  /\ net <= Len(calls)
  /\ pc = "awaiting" => (Len(calls) = Len(fetched) + 1 /\ net = Len(calls))
  /\ (pc = "awaiting" /\ LoopMode) => pages = fetched
  /\ (result.tag = "Ok" /\ ~settings.use_stub) => result.v = fetched
  /\ result.tag = "Err" =>
       /\ pc = "done"
       /\ Len(calls) = Len(fetched) + 1
       /\ response = Respond(settings, result)
  /\ (response.status = 200 /\ response.source = "fail_open_stub") =>
       result.tag = "Err"

\* One step: a new call is sent only when every earlier call has its page,
\* pages are appended in fetch order, and once the driver has returned
\* (with pages or a failure) nothing is called, sent or decided again.
C18_Step ==
  /\ Len(calls') > Len(calls) =>
       /\ calls' = Append(calls, calls'[Len(calls')])
       /\ Len(fetched') = Len(calls)
       /\ result = Pending
  /\ net' \in {net, net + 1}
  /\ Len(fetched') >= Len(fetched)
  /\ SubSeq(fetched', 1, Len(fetched)) = fetched
  /\ result # Pending =>
       /\ calls' = calls
       /\ net' = net
       /\ fetched' = fetched
       /\ result' = result
       /\ response' = response

\* C18: within a request nothing is retried and fetching is strictly
\* sequential: call k+1 is made only after page k was received, pages are
\* accumulated in fetch order, after a failure no further upstream call is
\* made (no retry, no fetch for the fail-open substitution), and the
\* fail-open decision is taken once, when the driver has returned.
C18_NoRetrySequentialFetch == [](C18_Sequential) /\ [][C18_Step]_vars

\* The third call of a fetch_all request failed after two pages: three
\* calls, three HTTP requests, and the fail-open response.
C18_Witness ==
  /\ LoopMode
  /\ settings.fail_open
  /\ Len(fetched) = 2
  /\ Len(calls) = 3
  /\ net = 3
  /\ result = Err([kind |-> "Http"])
  /\ response.status = 200
  /\ response.source = "fail_open_stub"

(* -------------------------------- C19 ---------------------------------- *)

\* C19: a 200 response tagged "worldmobile" reflects at least one
\* successful upstream fetch: it is produced outside stub mode, after one or
\* more upstream calls that all succeeded, whatever the configuration.
C19_WorldmobileTagMeansFetched ==
  (pc = "done" /\ response.status = 200 /\ response.source = "worldmobile") =>
    /\ ~settings.use_stub
    /\ result.tag = "Ok"
    /\ Len(calls) >= 1
    /\ net = Len(calls)
    /\ Len(fetched) = Len(calls)

(* -------------------------------- C20 ---------------------------------- *)

\* C20: the aggregation is deterministic: the merged records are a function
\* of the candidate list alone.  Whatever the order in which the hash map
\* is iterated, the result is the one list with the codes ascending, each
\* once, each with the first non-null name of the list; so two requests
\* with the same pages give the same countries in the same order.
C20_MergeIndependentOfMapOrder ==
  output.kind = "merged" =>
    /\ output.once = SortedPairs(DedupMap(input.cands))
    /\ IsMergeOf(output.once, input.cands)
    /\ \A o \in IterationOrders(CodesOf(input.cands)) :
         MergeIn(input.cands, o) = output.once

\* Candidates us, US "Usa", CA, US "USA" (three codes, so six iteration
\* orders of the map) merged to CA, US "Usa", us.
C20_Witness ==
  /\ output.kind = "merged"
  /\ input.cands = <<Pair(sLowerUs, NONE), Pair(sUS, Some(sUsa)),
                     Pair(sCA, NONE)>>
  /\ Cardinality(IterationOrders(CodesOf(input.cands))) = 6
  /\ output.once = <<Pair(sCA, NONE), Pair(sUS, Some(sUsa)),
                     Pair(sLowerUs, NONE)>>

=============================================================================
